---- MODULE Spec2Model ----
(***************************************************************************)
(* BookSaloon backend: the appointment lifecycle (booking, status update,  *)
(* OTP-gated completion, complete, no-show, claim, cleanup) and the slot   *)
(* engine of src/controllers/appointmentController.js, behind the routes   *)
(* of src/unnamed/part_003.                                                *)
(*                                                                         *)
(* Time is counted in minutes.  A request is handled in one step: the      *)
(* handler reads the store, decides, writes and answers; the answer stays  *)
(* in `response` until the caller has taken it (Deliver).  Where requests  *)
(* that run side by side are looked at, a claim and a status update take   *)
(* two steps, the read with its checks and the write with the answer, and  *)
(* `inflight` holds the requests between the two.                          *)
(*                                                                         *)
(* The services the handlers call can fail: creating or emitting a         *)
(* notification fails for the users in `notifyFails`, sending an email     *)
(* fails while `mailFails` holds.                                          *)
(***************************************************************************)
EXTENDS Integers, Sequences, FiniteSets, TLC

VARIABLES appointments, now, response, notifyFails, mailFails, inflight

vars == <<appointments, now, response, notifyFails, mailFails, inflight>>

\* ------------------------------------------------------------------ bounds

\* Largest number of rows of the Appointment table.
MaxAppts == 1

\* Largest number of steps of the clock.
MaxTicks == 1

\* ------------------------------------------------------------ JS values

\* JavaScript null (a nullable column that is not set).
NULL == "null"

\* JavaScript undefined (a field the request body does not carry).
UNDEFINED == "undefined"

\* A nullable DateTime column is a sequence: empty when null.
NullDate == << >>

\* !x of JavaScript for the string-valued request fields.
Falsy(x) == x = NULL \/ x = UNDEFINED \/ x = ""

\* ------------------------------------------------------- the other tables

\* User rows: the role is set at registration and never changed afterwards.
Users == {"c1", "c2", "o1", "o2", "s1", "s2", "s3", "s4"}

role(u) ==
    CASE u \in {"c1", "c2"} -> "CUSTOMER"
      [] u \in {"o1", "o2"} -> "OWNER"
      [] OTHER -> "STAFF"

\* Business rows (business.ownerId).
Businesses == {"b1", "b2"}

ownerId(b) == IF b = "b1" THEN "o1" ELSE "o2"

\* Staff rows; userId is unique.  The STAFF user s4 has no staff profile.
StaffRows ==
    { [id |-> "st1", userId |-> "s1", businessId |-> "b1"],
      [id |-> "st2", userId |-> "s2", businessId |-> "b1"],
      [id |-> "st3", userId |-> "s3", businessId |-> "b2"] }

\* prisma.staff.findUnique({ where: { userId } }): the row, or null.
staffProfile(u) ==
    IF \E s \in StaffRows : s.userId = u
    THEN CHOOSE s \in StaffRows : s.userId = u
    ELSE [id |-> NULL, userId |-> NULL, businessId |-> NULL]

\* getStaffUser(staffId): the staff row with that id, or null.
getStaffUser(staffId) ==
    IF \E s \in StaffRows : s.id = staffId
    THEN CHOOSE s \in StaffRows : s.id = staffId
    ELSE [id |-> NULL, userId |-> NULL, businessId |-> NULL]

\* Service rows: duration in minutes, 0 when the column is unset.
Services == {"sv1", "sv2", "sv3"}

serviceRow(sv) ==
    CASE sv = "sv1" -> [businessId |-> "b1", duration |-> 30]
      [] sv = "sv2" -> [businessId |-> "b1", duration |-> 60]
      [] OTHER -> [businessId |-> "b2", duration |-> 0]

\* ---------------------------------------------------------------- statuses

Statuses == {"PENDING", "CONFIRMED", "CANCELLED", "COMPLETED", "NO_SHOW"}

\* ['CONFIRMED', 'CANCELLED', 'COMPLETED', 'NO_SHOW'] of updateAppointmentStatus.
ValidTargets == {"CONFIRMED", "CANCELLED", "COMPLETED", "NO_SHOW"}

Terminal == {"CANCELLED", "COMPLETED", "NO_SHOW"}

\* -------------------------------------------------------- the middleware

\* authorize(...roles) of middleware/authMiddleware: the request passes when
\* the role of the authenticated user is one of the roles of the route.
authorize(roles, u) == role(u) \in roles

\* ------------------------------------------------------- handler results

\* What a handler leaves behind: the HTTP status it answers with, the
\* Appointment table after it, the notifications it attempted (user, type),
\* those of them that were created and emitted and, for cleanup, the count
\* it reports.
Reply(code, appts, notified) ==
    [ code |-> code, appts |-> appts, notified |-> notified,
      delivered |-> {}, count |-> 0 ]

\* notifyUser with the error thrown on to the caller instead of logged.
notifyUserRethrow(n) ==
    [ attempted |-> {n},
      delivered |-> IF n[1] \in notifyFails THEN {} ELSE {n},
      thrown |-> n[1] \in notifyFails ]

\* notifyUser(userId, type, ...): createNotification and emitNotification
\* inside try/catch.  n is <<userId, type>>; a failure is logged and the
\* helper returns normally.
notifyUser(n) ==
    [ attempted |-> {n},
      delivered |-> IF n[1] \in notifyFails THEN {} ELSE {n},
      thrown |-> FALSE ]

\* The awaited notifyUser calls of a handler, in the order of the code: an
\* error that leaves one of them skips the calls after it.
RECURSIVE notifyEach(_)
notifyEach(ns) ==
    IF ns = << >>
    THEN [attempted |-> {}, delivered |-> {}, thrown |-> FALSE]
    ELSE LET h == notifyUser(Head(ns))
             t == notifyEach(Tail(ns))
         IN  IF h.thrown THEN h
             ELSE [ attempted |-> h.attempted \cup t.attempted,
                    delivered |-> h.delivered \cup t.delivered,
                    thrown |-> t.thrown ]

\* Respond as it would be were the write and the notifications one
\* transaction: a notification that fails undoes the write, answered 500.
RespondOrRollBack(code, appts, ns) ==
    LET o == notifyEach(ns)
    IN  IF o.attempted # o.delivered
        THEN [ code |-> 500, appts |-> appointments, notified |-> o.attempted,
               delivered |-> o.delivered, count |-> 0 ]
        ELSE [ code |-> code, appts |-> appts, notified |-> o.attempted,
               delivered |-> o.delivered, count |-> 0 ]

\* The end of a handler whose write is done: it sends the notifications ns
\* and answers with code; an error thrown on the way is answered by the
\* handler's catch with 500.
Respond(code, appts, ns) ==
    LET o == notifyEach(ns)
    IN  [ code |-> IF o.thrown THEN 500 ELSE code,
          appts |-> appts,
          notified |-> o.attempted,
          delivered |-> o.delivered,
          count |-> 0 ]

\* prisma.appointment.findUnique({ where: { id } }) finds a row.
Exists(id) == id \in 1..Len(appointments)

\* isOwner of the handlers.
isOwner(u, a) == ownerId(a.businessId) = u

\* isCustomer of updateAppointmentStatus.
isCustomer(u, a) == a.customerId = u

\* isStaff as it would be if any staff member of the business counted.
isStaffOfBusiness(u, a) ==
    /\ role(u) = "STAFF"
    /\ staffProfile(u).id # NULL
    /\ a.businessId = staffProfile(u).businessId

\* isStaff of the handlers: set only for a STAFF user, to
\* staffProfile && appointment.staffId === staffProfile.id.
isStaff(u, a) ==
    /\ role(u) = "STAFF"
    /\ staffProfile(u).id # NULL
    /\ a.staffId = staffProfile(u).id

\* ---------------------------------------------------------- the slot engine

\* Minutes of a day: setHours(0, 0, 0, 0) to setHours(23, 59, 59, 999).
MinutesPerDay == 1440

\* slotInterval of getAvailableSlots.
slotInterval == 30

\* The fallback of service.duration || 30.
DefaultDuration == 30

\* service.duration || 30, and apt.service?.duration || 30.
durationOf(sv) ==
    IF serviceRow(sv).duration = 0 THEN DefaultDuration ELSE serviceRow(sv).duration

\* startOfDay and endOfDay of the selected date.  With whole-minute times,
\* 23:59:59.999 compares like the last minute of the day.
startOfDay(d) == d - (d % MinutesPerDay)

endOfDay(d) == startOfDay(d) + (MinutesPerDay - 1)

\* selectedDate.getDay(); minute 0 is a Monday, 00:00.
dayOfWeek(d) == ((d \div MinutesPerDay) + 1) % 7

\* BusinessHour rows; startTime and endTime "HH:mm" as <<HH, mm>>.  b1 is
\* open on Sunday, Monday and Wednesday and closed on Tuesday; it has no
\* row for the other days, and b2 has no row at all.
BusinessHours ==
    { [businessId |-> "b1", dayOfWeek |-> 0, isOpen |-> TRUE,
       startTime |-> <<9, 0>>, endTime |-> <<11, 0>>],
      [businessId |-> "b1", dayOfWeek |-> 1, isOpen |-> TRUE,
       startTime |-> <<9, 0>>, endTime |-> <<11, 0>>],
      [businessId |-> "b1", dayOfWeek |-> 2, isOpen |-> FALSE,
       startTime |-> <<9, 0>>, endTime |-> <<11, 0>>],
      [businessId |-> "b1", dayOfWeek |-> 3, isOpen |-> TRUE,
       startTime |-> <<10, 15>>, endTime |-> <<12, 15>>] }

\* setHours(h, m, 0, 0) on the selected date.
setHours(d, hm) == startOfDay(d) + hm[1] * 60 + hm[2]

\* The overlap test with a slot that only touches an appointment counted
\* as booked.
isBookedTouching(businessId, date, currentSlot, slotEnd) ==
    \E i \in 1..Len(appointments) :
        /\ appointments[i].businessId = businessId
        /\ appointments[i].date >= startOfDay(date)
        /\ appointments[i].date <= endOfDay(date)
        /\ appointments[i].status \in {"PENDING", "CONFIRMED"}
        /\ currentSlot <= appointments[i].date + durationOf(appointments[i].serviceId)
        /\ slotEnd >= appointments[i].date

\* The overlap test over the appointments of every status.
isBookedAnyStatus(businessId, date, currentSlot, slotEnd) ==
    \E i \in 1..Len(appointments) :
        /\ appointments[i].businessId = businessId
        /\ appointments[i].date >= startOfDay(date)
        /\ appointments[i].date <= endOfDay(date)
        /\ currentSlot < appointments[i].date + durationOf(appointments[i].serviceId)
        /\ slotEnd > appointments[i].date

\* The overlap test over the appointments no staff member is assigned to.
isBookedUnassigned(businessId, date, currentSlot, slotEnd) ==
    \E i \in 1..Len(appointments) :
        /\ appointments[i].businessId = businessId
        /\ appointments[i].staffId = NULL
        /\ appointments[i].date >= startOfDay(date)
        /\ appointments[i].date <= endOfDay(date)
        /\ appointments[i].status \in {"PENDING", "CONFIRMED"}
        /\ currentSlot < appointments[i].date + durationOf(appointments[i].serviceId)
        /\ slotEnd > appointments[i].date

\* The appointments.some(...) of getAvailableSlots over the rows findMany
\* returns: same business, dated on the selected day, PENDING or CONFIRMED.
isBooked(businessId, date, currentSlot, slotEnd) ==
    \E i \in 1..Len(appointments) :
        /\ appointments[i].businessId = businessId
        /\ appointments[i].date >= startOfDay(date)
        /\ appointments[i].date <= endOfDay(date)
        /\ appointments[i].status \in {"PENDING", "CONFIRMED"}
        /\ currentSlot < appointments[i].date + durationOf(appointments[i].serviceId)
        /\ slotEnd > appointments[i].date

\* The while loop without the break on a slot that ends after closing.
RECURSIVE generateSlotsNoFit(_, _, _, _, _)
generateSlotsNoFit(businessId, date, serviceDuration, businessEndTime, currentSlot) ==
    IF ~(currentSlot < businessEndTime) THEN << >>
    ELSE IF currentSlot < now
         THEN generateSlotsNoFit(businessId, date, serviceDuration, businessEndTime,
                                 currentSlot + slotInterval)
    ELSE << [ time |-> currentSlot,
              available |-> ~isBooked(businessId, date, currentSlot,
                                      currentSlot + serviceDuration) ] >>
         \o generateSlotsNoFit(businessId, date, serviceDuration, businessEndTime,
                               currentSlot + slotInterval)

\* The while loop of getAvailableSlots from currentSlot on.
RECURSIVE generateSlots(_, _, _, _, _)
generateSlots(businessId, date, serviceDuration, businessEndTime, currentSlot) ==
    IF ~(currentSlot < businessEndTime) THEN << >>
    ELSE IF currentSlot < now
         THEN generateSlots(businessId, date, serviceDuration, businessEndTime,
                            currentSlot + slotInterval)
    ELSE IF currentSlot + serviceDuration > businessEndTime THEN << >>
    ELSE << [ time |-> currentSlot,
              available |-> ~isBooked(businessId, date, currentSlot,
                                      currentSlot + serviceDuration) ] >>
         \o generateSlots(businessId, date, serviceDuration, businessEndTime,
                          currentSlot + slotInterval)

\* GET /api/appointments/available-slots: the slots it answers with.
getAvailableSlots(businessId, serviceId, date) ==
    LET rows == { h \in BusinessHours :
                    h.businessId = businessId /\ h.dayOfWeek = dayOfWeek(date) }
    IN  IF endOfDay(date) < now THEN << >>
        ELSE IF rows = {} THEN << >>
        ELSE LET businessHour == CHOOSE h \in rows : TRUE IN
             IF ~businessHour.isOpen THEN << >>
             ELSE generateSlots(businessId, date, durationOf(serviceId),
                                setHours(date, businessHour.endTime),
                                setHours(date, businessHour.startTime))

\* The slot engine reports t as an available slot of that business, service
\* and day.
slotAvailable(businessId, serviceId, t) ==
    \E k \in 1..Len(getAvailableSlots(businessId, serviceId, t)) :
        /\ getAvailableSlots(businessId, serviceId, t)[k].time = t
        /\ getAvailableSlots(businessId, serviceId, t)[k].available

\* GET /api/appointments/available-slots, a route without protect or
\* authorize: q is req.query.  It answers with the slots and writes nothing.
GetSlots(q) ==
    IF Falsy(q.businessId) \/ Falsy(q.serviceId) \/ q.date = NullDate
    THEN [code |-> 400, slots |-> << >>]
    ELSE IF q.serviceId \notin Services THEN [code |-> 404, slots |-> << >>]
    ELSE [code |-> 200, slots |-> getAvailableSlots(q.businessId, q.serviceId, q.date[1])]

\* ----------------------------------------------------------- the handlers

\* createAppointment as it would be with the slot engine consulted first.
createAppointmentChecked(u, body) ==
    IF Falsy(body.businessId) \/ Falsy(body.serviceId) \/ body.date = NullDate
    THEN Reply(400, appointments, {})
    ELSE IF ~slotAvailable(body.businessId, body.serviceId, body.date[1])
    THEN Reply(400, appointments, {})
    ELSE Reply(201,
               Append(appointments,
                      [ customerId |-> u,
                        businessId |-> body.businessId,
                        serviceId |-> body.serviceId,
                        staffId |-> IF Falsy(body.staffId) THEN NULL ELSE body.staffId,
                        date |-> body.date[1],
                        status |-> "PENDING",
                        completionOtp |-> NULL,
                        otpExpires |-> NullDate ]),
               {<<ownerId(body.businessId), "APPOINTMENT_BOOKED">>})

\* createAppointment as it would be with the status and the customer taken
\* from the body when the body carries them.
createAppointmentFromBody(u, body) ==
    IF Falsy(body.businessId) \/ Falsy(body.serviceId) \/ body.date = NullDate
    THEN Reply(400, appointments, {})
    ELSE Reply(201,
               Append(appointments,
                      [ customerId |-> IF "customerId" \in DOMAIN body
                                       THEN body.customerId ELSE u,
                        businessId |-> body.businessId,
                        serviceId |-> body.serviceId,
                        staffId |-> IF Falsy(body.staffId) THEN NULL ELSE body.staffId,
                        date |-> body.date[1],
                        status |-> IF "status" \in DOMAIN body
                                   THEN body.status ELSE "PENDING",
                        completionOtp |-> NULL,
                        otpExpires |-> NullDate ]),
               {<<ownerId(body.businessId), "APPOINTMENT_BOOKED">>})

\* POST /api/appointments
createAppointment(u, body) ==
    IF Falsy(body.businessId) \/ Falsy(body.serviceId) \/ body.date = NullDate
    THEN Reply(400, appointments, {})
    ELSE LET row == [ customerId |-> u,
                      businessId |-> body.businessId,
                      serviceId |-> body.serviceId,
                      staffId |-> IF Falsy(body.staffId) THEN NULL ELSE body.staffId,
                      date |-> body.date[1],
                      status |-> "PENDING",
                      completionOtp |-> NULL,
                      otpExpires |-> NullDate ]
             staff == getStaffUser(row.staffId)
         IN  Respond(201, Append(appointments, row),
                     <<<<ownerId(row.businessId), "APPOINTMENT_BOOKED">>>>
                     \o (IF row.staffId # NULL /\ staff.id # NULL
                         THEN <<<<staff.userId, "APPOINTMENT_ASSIGNED">>>>
                         ELSE << >>))

\* statusNotifications with the owner told of every cancellation too.
statusNotificationsOwnerToo(u, a, status) ==
    IF status = "CANCELLED"
    THEN << <<a.customerId, "APPOINTMENT_CANCELLED">>,
            <<ownerId(a.businessId), "APPOINTMENT_CANCELLED">> >>
    ELSE << <<a.customerId, "APPOINTMENT_CONFIRMED">> >>

\* The notifications of a successful status update, in the order sent.
statusNotifications(u, a, status) ==
    LET staff == getStaffUser(a.staffId)
        toCustomer(type) == <<<<a.customerId, type>>>>
        toOwner(type) ==
            IF isStaff(u, a) THEN <<<<ownerId(a.businessId), type>>>> ELSE << >>
    IN  CASE status = "CONFIRMED" ->
               toCustomer("APPOINTMENT_CONFIRMED") \o toOwner("APPOINTMENT_CONFIRMED")
          [] status = "CANCELLED" ->
               IF isCustomer(u, a)
               THEN <<<<ownerId(a.businessId), "APPOINTMENT_CANCELLED">>>>
                    \o (IF a.staffId # NULL /\ staff.id # NULL
                        THEN <<<<staff.userId, "APPOINTMENT_CANCELLED">>>>
                        ELSE << >>)
               ELSE toCustomer("APPOINTMENT_CANCELLED") \o toOwner("APPOINTMENT_CANCELLED")
          [] status = "COMPLETED" ->
               toCustomer("APPOINTMENT_COMPLETED") \o toOwner("APPOINTMENT_COMPLETED")
          [] status = "NO_SHOW" ->
               toCustomer("APPOINTMENT_NO_SHOW") \o toOwner("APPOINTMENT_NO_SHOW")
          [] OTHER -> << >>

\* statusForbidden without the "Staff can only confirm appointments" check.
statusForbiddenStaffAnyTarget(u, a, status) ==
    \/ ~isOwner(u, a) /\ ~isCustomer(u, a) /\ ~isStaff(u, a)
    \/ isCustomer(u, a) /\ status # "CANCELLED"
    \/ isStaff(u, a) /\ status = "CANCELLED"

\* statusForbidden without the "Not authorized" check.
statusForbiddenNoStranger(u, a, status) ==
    \/ isCustomer(u, a) /\ status # "CANCELLED"
    \/ isStaff(u, a) /\ status = "CANCELLED"
    \/ isStaff(u, a) /\ status # "CONFIRMED"

\* statusForbidden without the "Customers can only cancel appointments" check.
statusForbiddenCustomerAnyTarget(u, a, status) ==
    \/ ~isOwner(u, a) /\ ~isCustomer(u, a) /\ ~isStaff(u, a)
    \/ isStaff(u, a) /\ status = "CANCELLED"
    \/ isStaff(u, a) /\ status # "CONFIRMED"

\* The role checks of updateAppointmentStatus: the request is refused (403).
statusForbidden(u, a, status) ==
    \/ ~isOwner(u, a) /\ ~isCustomer(u, a) /\ ~isStaff(u, a)
    \/ isCustomer(u, a) /\ status # "CANCELLED"
    \/ isStaff(u, a) /\ status = "CANCELLED"
    \/ isStaff(u, a) /\ status # "CONFIRMED"

\* updateAppointmentStatus with the appointment looked up and the actor
\* checked before the requested status is validated.
updateAppointmentStatusLookupFirst(u, id, status) ==
    IF ~Exists(id) THEN Reply(404, appointments, {})
    ELSE IF statusForbidden(u, appointments[id], status)
         THEN Reply(403, appointments, {})
    ELSE IF status \notin ValidTargets THEN Reply(400, appointments, {})
    ELSE Respond(200, [appointments EXCEPT ![id].status = status],
                 statusNotifications(u, appointments[id], status))

\* PUT /api/appointments/:id/status
updateAppointmentStatus(u, id, status) ==
    IF status \notin ValidTargets THEN Reply(400, appointments, {})
    ELSE IF ~Exists(id) THEN Reply(404, appointments, {})
    ELSE IF statusForbidden(u, appointments[id], status)
         THEN Reply(403, appointments, {})
    ELSE Respond(200, [appointments EXCEPT ![id].status = status],
                 statusNotifications(u, appointments[id], status))

\* Minutes an OTP is valid for: 15 * 60 * 1000 ms.
OtpLifetime == 15

\* The owner-or-assigned-staff check shared by initiateCompletion,
\* verifyCompletion, markAsCompleted and markAsNoShow: refused (403).
notOwnerNorStaff(u, a) == ~isOwner(u, a) /\ ~isStaff(u, a)

\* sendCompletionOTP(email, otp, details) of utils/emailService: it awaits
\* sendEmail, which logs a failure of the transport and throws it on.
sendCompletionOTP == [thrown |-> mailFails]

\* POST /api/appointments/:id/initiate-completion; otp is the code drawn by
\* Math.floor(100000 + Math.random() * 900000).toString().
initiateCompletion(u, id, otp) ==
    IF ~Exists(id) THEN Reply(404, appointments, {})
    ELSE IF notOwnerNorStaff(u, appointments[id]) THEN Reply(403, appointments, {})
    ELSE LET saved == [appointments EXCEPT ![id].completionOtp = otp,
                                           ![id].otpExpires = <<now + OtpLifetime>>]
         IN  IF sendCompletionOTP.thrown
             THEN Reply(500, saved, {})
             ELSE Reply(200, saved, {})

\* The comparison as != would make it: null and undefined compare equal.
otpMismatchLoose(stored, otp) ==
    /\ stored # otp
    /\ ~({stored, otp} \subseteq {NULL, UNDEFINED})

\* appointment.completionOtp !== otp: strict, so null and undefined differ.
otpMismatch(stored, otp) == stored # otp

\* verifyCompletion as it would be with the expiry of the code enforced.
verifyCompletionExpiryChecked(u, id, otp) ==
    IF ~Exists(id) THEN Reply(404, appointments, {})
    ELSE IF notOwnerNorStaff(u, appointments[id]) THEN Reply(403, appointments, {})
    ELSE IF otpMismatch(appointments[id].completionOtp, otp)
         THEN Reply(400, appointments, {})
    ELSE IF /\ appointments[id].otpExpires # NullDate
            /\ appointments[id].otpExpires[1] < now
         THEN Reply(400, appointments, {})
    ELSE Reply(200, [appointments EXCEPT ![id].status = "COMPLETED",
                                         ![id].completionOtp = NULL,
                                         ![id].otpExpires = NullDate],
               {})

\* POST /api/appointments/:id/verify-completion; otp is req.body.otp.
verifyCompletion(u, id, otp) ==
    IF ~Exists(id) THEN Reply(404, appointments, {})
    ELSE IF notOwnerNorStaff(u, appointments[id]) THEN Reply(403, appointments, {})
    ELSE IF otpMismatch(appointments[id].completionOtp, otp)
         THEN Reply(400, appointments, {})
    ELSE LET n == <<appointments[id].customerId, "APPOINTMENT_COMPLETED">>
         IN  [ code |-> 200,
               appts |-> [appointments EXCEPT ![id].status = "COMPLETED",
                                              ![id].completionOtp = NULL,
                                              ![id].otpExpires = NullDate],
               notified |-> {n},
               delivered |-> IF n[1] \in notifyFails THEN {} ELSE {n},
               count |-> 0 ]

\* POST /api/appointments/:id/complete
markAsCompleted(u, id) ==
    IF ~Exists(id) THEN Reply(404, appointments, {})
    ELSE IF notOwnerNorStaff(u, appointments[id]) THEN Reply(403, appointments, {})
    ELSE Respond(200, [appointments EXCEPT ![id].status = "COMPLETED"],
                 <<<<appointments[id].customerId, "APPOINTMENT_COMPLETED">>>>
                 \o (IF isStaff(u, appointments[id])
                     THEN <<<<ownerId(appointments[id].businessId), "APPOINTMENT_COMPLETED">>>>
                     ELSE << >>))

\* POST /api/appointments/:id/no-show
markAsNoShow(u, id) ==
    IF ~Exists(id) THEN Reply(404, appointments, {})
    ELSE IF notOwnerNorStaff(u, appointments[id]) THEN Reply(403, appointments, {})
    ELSE Reply(200, [appointments EXCEPT ![id].status = "NO_SHOW"], {})

\* The where clause of the updateMany without its business.ownerId part.
expiredPendingAnyOwner(u) ==
    { i \in 1..Len(appointments) :
        /\ appointments[i].status = "PENDING"
        /\ appointments[i].date < now }

\* The rows the updateMany of cleanupExpiredAppointments selects.
expiredPending(u) ==
    { i \in 1..Len(appointments) :
        /\ appointments[i].status = "PENDING"
        /\ appointments[i].date < now
        /\ ownerId(appointments[i].businessId) = u }

\* cleanupExpiredAppointments with the confirmed rows cancelled too, and
\* counted as the PENDING ones alone.
cleanupExpiredAppointmentsConfirmedToo(u) ==
    [ code |-> 200,
      appts |-> [ i \in 1..Len(appointments) |->
                    IF /\ appointments[i].status \in {"PENDING", "CONFIRMED"}
                       /\ appointments[i].date < now
                       /\ ownerId(appointments[i].businessId) = u
                    THEN [appointments[i] EXCEPT !.status = "CANCELLED"]
                    ELSE appointments[i] ],
      notified |-> {},
      delivered |-> {},
      count |-> Cardinality(expiredPending(u)) ]

\* cleanupExpiredAppointments with deleteMany in place of updateMany.
cleanupExpiredAppointmentsDeleting(u) ==
    [ code |-> 200,
      appts |-> SelectSeq(appointments,
                          LAMBDA a : ~( /\ a.status = "PENDING"
                                        /\ a.date < now
                                        /\ ownerId(a.businessId) = u )),
      notified |-> {},
      delivered |-> {},
      count |-> Cardinality(expiredPending(u)) ]

\* POST /api/appointments/cleanup-expired
cleanupExpiredAppointments(u) ==
    [ code |-> 200,
      appts |-> [ i \in 1..Len(appointments) |->
                    IF i \in expiredPending(u)
                    THEN [appointments[i] EXCEPT !.status = "CANCELLED"]
                    ELSE appointments[i] ],
      notified |-> {},
      delivered |-> {},
      count |-> Cardinality(expiredPending(u)) ]

\* claimAppointment without the "Appointment already assigned" check.
claimAppointmentReassign(u, id) ==
    LET staff == staffProfile(u) IN
    IF staff.id = NULL THEN Reply(404, appointments, {})
    ELSE IF ~Exists(id) THEN Reply(404, appointments, {})
    ELSE IF appointments[id].businessId # staff.businessId
         THEN Reply(403, appointments, {})
    ELSE Respond(200, [appointments EXCEPT ![id].staffId = staff.id],
                 << <<ownerId(appointments[id].businessId), "STAFF_CLAIMED">>,
                    <<appointments[id].customerId, "APPOINTMENT_ASSIGNED">> >>)

\* claimAppointment with the already-assigned check made before the
\* same-business check.
claimAppointmentAssignedFirst(u, id) ==
    LET staff == staffProfile(u) IN
    IF staff.id = NULL THEN Reply(404, appointments, {})
    ELSE IF ~Exists(id) THEN Reply(404, appointments, {})
    ELSE IF appointments[id].staffId # NULL THEN Reply(400, appointments, {})
    ELSE IF appointments[id].businessId # staff.businessId
         THEN Reply(403, appointments, {})
    ELSE Respond(200, [appointments EXCEPT ![id].staffId = staff.id],
                 << <<ownerId(appointments[id].businessId), "STAFF_CLAIMED">>,
                    <<appointments[id].customerId, "APPOINTMENT_ASSIGNED">> >>)

\* POST /api/appointments/:id/claim
claimAppointment(u, id) ==
    LET staff == staffProfile(u) IN
    IF staff.id = NULL THEN Reply(404, appointments, {})
    ELSE IF ~Exists(id) THEN Reply(404, appointments, {})
    ELSE IF appointments[id].businessId # staff.businessId
         THEN Reply(403, appointments, {})
    ELSE IF appointments[id].staffId # NULL THEN Reply(400, appointments, {})
    ELSE Respond(200, [appointments EXCEPT ![id].staffId = staff.id],
                 << <<ownerId(appointments[id].businessId), "STAFF_CLAIMED">>,
                    <<appointments[id].customerId, "APPOINTMENT_ASSIGNED">> >>)

\* ------------------------------------------------------------ the routes

\* What authorize(...) answers when the role is not one of the route's.
Refused == Reply(403, appointments, {})

\* router.post('/', protect, authorize('CUSTOMER'), createAppointment)
PostAppointment(u, body) ==
    IF authorize({"CUSTOMER"}, u) THEN createAppointment(u, body) ELSE Refused

\* router.put('/:id/status', protect, authorize('OWNER', 'STAFF'), updateAppointmentStatus)
PutStatus(u, id, status) ==
    IF authorize({"OWNER", "STAFF"}, u)
    THEN updateAppointmentStatus(u, id, status) ELSE Refused

\* router.post('/:id/initiate-completion', protect, authorize('OWNER', 'STAFF'), ...)
PostInitiateCompletion(u, id, otp) ==
    IF authorize({"OWNER", "STAFF"}, u)
    THEN initiateCompletion(u, id, otp) ELSE Refused

\* router.post('/:id/verify-completion', protect, authorize('OWNER', 'STAFF'), ...)
PostVerifyCompletion(u, id, otp) ==
    IF authorize({"OWNER", "STAFF"}, u)
    THEN verifyCompletion(u, id, otp) ELSE Refused

\* router.post('/:id/complete', protect, authorize('OWNER', 'STAFF'), markAsCompleted)
PostComplete(u, id) ==
    IF authorize({"OWNER", "STAFF"}, u) THEN markAsCompleted(u, id) ELSE Refused

\* router.post('/:id/no-show', protect, authorize('OWNER', 'STAFF'), markAsNoShow)
PostNoShow(u, id) ==
    IF authorize({"OWNER", "STAFF"}, u) THEN markAsNoShow(u, id) ELSE Refused

\* router.post('/cleanup-expired', protect, authorize('OWNER'), cleanupExpiredAppointments)
PostCleanupExpired(u) ==
    IF authorize({"OWNER"}, u) THEN cleanupExpiredAppointments(u) ELSE Refused

\* router.post('/:id/claim', protect, authorize('STAFF'), claimAppointment)
PostClaim(u, id) ==
    IF authorize({"STAFF"}, u) THEN claimAppointment(u, id) ELSE Refused

\* ------------------------------------------------------------ the requests

\* The clock when the system starts: Monday 10:00.
StartTime == 10 * 60

\* Request bodies of POST /api/appointments: an open future slot of b1, the
\* same with a staff member requested, a past time at b2, and two bodies
\* with a required field missing.
BookingBodies ==
    { [businessId |-> "b1", serviceId |-> "sv1", staffId |-> UNDEFINED, date |-> <<630>>],
      [businessId |-> "b1", serviceId |-> "sv1", staffId |-> "st1", date |-> <<630>>],
      [businessId |-> "b2", serviceId |-> "sv3", staffId |-> UNDEFINED, date |-> <<570>>],
      [businessId |-> UNDEFINED, serviceId |-> "sv1", staffId |-> UNDEFINED, date |-> <<630>>],
      [businessId |-> "b1", serviceId |-> "sv1", staffId |-> UNDEFINED, date |-> NullDate] }

\* The users who send booking requests.
BookingUsers == {"c1", "o1"}

\* req.body.status of a status update: the four targets and one other value.
RequestedStatuses == ValidTargets \cup {"PENDING"}

\* The codes Math.random() draws in initiateCompletion.
GeneratedOtps == {"123456"}

\* req.body.otp of a verify request: the drawn code, another code, null, absent.
SubmittedOtps == {"123456", "000000", NULL, UNDEFINED}

\* req.params.id: ids of rows, and of no row while the table is short.
AppointmentIds == 1..MaxAppts

\* req.query of the slot queries sent between the other requests: the day
\* of the clock at b1 for a service of 60 minutes, and a query without its
\* date.
SlotQueries ==
    { [businessId |-> "b1", serviceId |-> "sv2", date |-> <<StartTime>>],
      [businessId |-> "b1", serviceId |-> "sv1", date |-> NullDate] }

\* ---------------------------------------------------------------- actions

NoResponse == [op |-> "none"]

\* The table is empty and every service works.
Init ==
    /\ appointments = << >>
    /\ now = StartTime
    /\ response = NoResponse
    /\ notifyFails = {}
    /\ mailFails = FALSE
    /\ inflight = {}

\* The request is handled: the table is as the handler leaves it, and the
\* answer goes out.  `was` is the row findUnique gave the handler, before
\* its write: empty when there is no such row.
Answer(op, u, id, arg, r) ==
    /\ appointments' = r.appts
    /\ response' = [ op |-> op, user |-> u, id |-> id, arg |-> arg,
                     code |-> r.code, notified |-> r.notified,
                     delivered |-> r.delivered, count |-> r.count,
                     was |-> IF Exists(id) THEN <<appointments[id]>> ELSE << >> ]
    /\ UNCHANGED <<now, notifyFails, mailFails, inflight>>

CreateAppointment(u, body) ==
    /\ response.op = "none"
    /\ Answer("createAppointment", u, 0, body, PostAppointment(u, body))

UpdateAppointmentStatus(u, id, status) ==
    /\ response.op = "none"
    /\ Answer("updateAppointmentStatus", u, id, status, PutStatus(u, id, status))

InitiateCompletion(u, id, otp) ==
    /\ response.op = "none"
    /\ Answer("initiateCompletion", u, id, otp, PostInitiateCompletion(u, id, otp))

VerifyCompletion(u, id, otp) ==
    /\ response.op = "none"
    /\ Answer("verifyCompletion", u, id, otp, PostVerifyCompletion(u, id, otp))

MarkAsCompleted(u, id) ==
    /\ response.op = "none"
    /\ Answer("markAsCompleted", u, id, NULL, PostComplete(u, id))

MarkAsNoShow(u, id) ==
    /\ response.op = "none"
    /\ Answer("markAsNoShow", u, id, NULL, PostNoShow(u, id))

CleanupExpiredAppointments(u) ==
    /\ response.op = "none"
    /\ Answer("cleanupExpiredAppointments", u, 0, NULL, PostCleanupExpired(u))

ClaimAppointment(u, id) ==
    /\ response.op = "none"
    /\ Answer("claimAppointment", u, id, NULL, PostClaim(u, id))

\* A slot query is answered; the store is not written.
GetAvailableSlots(q) ==
    /\ response.op = "none"
    /\ response' = [ op |-> "getAvailableSlots", arg |-> q,
                     code |-> GetSlots(q).code, slots |-> GetSlots(q).slots ]
    /\ UNCHANGED <<appointments, now, notifyFails, mailFails, inflight>>

\* The caller has the answer.
Deliver ==
    /\ response.op # "none"
    /\ response' = NoResponse
    /\ UNCHANGED <<appointments, now, notifyFails, mailFails, inflight>>

\* Time passes between two requests: half an hour, the distance between two
\* slots.  new Date() and Date.now() of the handlers read this clock.
Tick ==
    /\ response.op = "none"
    /\ now < StartTime + MaxTicks * slotInterval
    /\ now' = now + slotInterval
    /\ UNCHANGED <<appointments, response, notifyFails, mailFails, inflight>>

Next ==
    \/ \E u \in BookingUsers, body \in BookingBodies :
           Len(appointments) < MaxAppts /\ CreateAppointment(u, body)
    \/ \E u \in Users, id \in AppointmentIds, status \in RequestedStatuses :
           UpdateAppointmentStatus(u, id, status)
    \/ \E u \in Users, id \in AppointmentIds, otp \in GeneratedOtps :
           InitiateCompletion(u, id, otp)
    \/ \E u \in Users, id \in AppointmentIds, otp \in SubmittedOtps :
           VerifyCompletion(u, id, otp)
    \/ \E u \in Users, id \in AppointmentIds : MarkAsCompleted(u, id)
    \/ \E u \in Users, id \in AppointmentIds : MarkAsNoShow(u, id)
    \/ \E u \in Users : CleanupExpiredAppointments(u)
    \/ \E u \in Users, id \in AppointmentIds : ClaimAppointment(u, id)
    \/ \E q \in SlotQueries : GetAvailableSlots(q)
    \/ Deliver
    \/ Tick

Spec == Init /\ [][Next]_vars

\* ------------------------------------------- bookings side by side

\* Largest number of rows of the Appointment table in SpecBooking.
MaxBookings == 2

\* Two customers book, and the owners confirm or cancel what was booked.
NextBooking ==
    \/ \E u \in {"c1", "c2"}, body \in BookingBodies :
           Len(appointments) < MaxBookings /\ CreateAppointment(u, body)
    \/ \E u \in {"o1", "o2"}, id \in 1..MaxBookings, status \in {"CONFIRMED", "CANCELLED"} :
           UpdateAppointmentStatus(u, id, status)
    \/ Deliver

SpecBooking == Init /\ [][NextBooking]_vars

\* ------------------------------------------- cleanup of several rows

\* Request bodies of the bookings that cleanup later meets: at b1 an hour
\* before the start of the clock, at the first step of the clock and half an
\* hour after it, and at b2 before the start of the clock.
CleanupBodies ==
    { [businessId |-> "b1", serviceId |-> "sv1", staffId |-> UNDEFINED,
       date |-> <<StartTime - 60>>],
      [businessId |-> "b1", serviceId |-> "sv1", staffId |-> UNDEFINED,
       date |-> <<StartTime + slotInterval>>],
      [businessId |-> "b1", serviceId |-> "sv2", staffId |-> UNDEFINED,
       date |-> <<StartTime + 2 * slotInterval>>],
      [businessId |-> "b2", serviceId |-> "sv3", staffId |-> UNDEFINED,
       date |-> <<StartTime - 30>>] }

\* A customer books, the owners confirm or cancel, time passes, and every
\* user asks for the cleanup.
NextCleanup ==
    \/ \E body \in CleanupBodies :
           Len(appointments) < MaxBookings /\ CreateAppointment("c1", body)
    \/ \E u \in {"o1", "o2"}, id \in 1..MaxBookings, status \in {"CONFIRMED", "CANCELLED"} :
           UpdateAppointmentStatus(u, id, status)
    \/ \E u \in Users : CleanupExpiredAppointments(u)
    \/ Deliver
    \/ Tick

SpecCleanup == Init /\ [][NextCleanup]_vars

\* ------------------------------------------- requests side by side

\* The checks of claimAppointment, behind its route, all pass: the staff
\* profile exists, the appointment exists, is of the same business and has
\* no staff.
claimAdmitted(u, id) ==
    /\ authorize({"STAFF"}, u)
    /\ staffProfile(u).id # NULL
    /\ Exists(id)
    /\ appointments[id].businessId = staffProfile(u).businessId
    /\ appointments[id].staffId = NULL

\* The update of claimAppointment and what follows it.
claimWrite(u, id) ==
    Respond(200, [appointments EXCEPT ![id].staffId = staffProfile(u).id],
            << <<ownerId(appointments[id].businessId), "STAFF_CLAIMED">>,
               <<appointments[id].customerId, "APPOINTMENT_ASSIGNED">> >>)

\* The checks of updateAppointmentStatus, behind its route, all pass.
statusAdmitted(u, id, status) ==
    /\ authorize({"OWNER", "STAFF"}, u)
    /\ status \in ValidTargets
    /\ Exists(id)
    /\ ~statusForbidden(u, appointments[id], status)

\* The update of updateAppointmentStatus and what follows it; read is the
\* appointment its findUnique returned.
statusWrite(u, id, status, read) ==
    Respond(200, [appointments EXCEPT ![id].status = status],
            statusNotifications(u, read, status))

\* A request that passed its checks awaits its write.
Begin(op, u, id, arg) ==
    /\ \A req \in inflight : req.user # u
    /\ inflight' = inflight \cup { [ op |-> op, user |-> u, id |-> id, arg |-> arg,
                                      read |-> appointments[id] ] }
    /\ UNCHANGED <<appointments, now, response, notifyFails, mailFails>>

\* The write of a request in flight is made and its answer goes out.
End(req, r) ==
    /\ appointments' = r.appts
    /\ response' = [ op |-> req.op, user |-> req.user, id |-> req.id, arg |-> req.arg,
                     code |-> r.code, notified |-> r.notified,
                     delivered |-> r.delivered, count |-> r.count,
                     was |-> <<req.read>> ]
    /\ inflight' = inflight \ {req}
    /\ UNCHANGED <<now, notifyFails, mailFails>>

BeginClaim(u, id) ==
    /\ response.op = "none"
    /\ claimAdmitted(u, id)
    /\ Begin("claimAppointment", u, id, NULL)

EndClaim(req) ==
    /\ response.op = "none"
    /\ req.op = "claimAppointment"
    /\ End(req, claimWrite(req.user, req.id))

BeginStatus(u, id, status) ==
    /\ response.op = "none"
    /\ statusAdmitted(u, id, status)
    /\ Begin("updateAppointmentStatus", u, id, status)

EndStatus(req) ==
    /\ response.op = "none"
    /\ req.op = "updateAppointmentStatus"
    /\ End(req, statusWrite(req.user, req.id, req.arg, req.read))

\* Request bodies of the bookings the racing requests meet: at b1, with no
\* staff requested, half an hour before the start of the clock and a quarter
\* of an hour after it.
RaceBodies ==
    { [businessId |-> "b1", serviceId |-> "sv1", staffId |-> UNDEFINED,
       date |-> <<StartTime - 30>>],
      [businessId |-> "b1", serviceId |-> "sv1", staffId |-> UNDEFINED,
       date |-> <<StartTime + 15>>] }

\* The users whose requests race: the owner of b1 and its two staff members.
RaceUsers == {"o1", "s1", "s2"}

\* A customer books; the staff members claim and the owner and the staff
\* members update the status in two steps each, any number of them between
\* read and write at a time; the owner cleans up.
NextRace ==
    \/ \E body \in RaceBodies :
           Len(appointments) < MaxAppts /\ CreateAppointment("c1", body)
    \/ \E u \in RaceUsers, id \in AppointmentIds : BeginClaim(u, id)
    \/ \E req \in inflight : EndClaim(req)
    \/ \E u \in RaceUsers, id \in AppointmentIds, status \in {"CONFIRMED", "CANCELLED"} :
           BeginStatus(u, id, status)
    \/ \E req \in inflight : EndStatus(req)
    \/ CleanupExpiredAppointments("o1")
    \/ Deliver

SpecRace == Init /\ [][NextRace]_vars

\* ------------------------------------------- what a booking may carry

\* Request bodies of POST /api/appointments with more than the handler
\* reads: a status, a customer and a completion code of the sender's
\* choosing; an empty staffId; and bodies with a required field missing.
CreateBodies ==
    { [businessId |-> "b1", serviceId |-> "sv1", staffId |-> "st1", date |-> <<630>>],
      [businessId |-> "b1", serviceId |-> "sv1", staffId |-> "", date |-> <<630>>],
      [businessId |-> "b1", serviceId |-> "sv2", staffId |-> UNDEFINED, date |-> <<660>>,
       status |-> "CONFIRMED", customerId |-> "c2", completionOtp |-> "123456"],
      [businessId |-> UNDEFINED, serviceId |-> "sv1", staffId |-> UNDEFINED, date |-> <<630>>],
      [businessId |-> "b1", serviceId |-> UNDEFINED, staffId |-> "st1", date |-> <<630>>,
       status |-> "CONFIRMED", customerId |-> "c2", completionOtp |-> "123456"],
      [businessId |-> "b1", serviceId |-> "sv1", staffId |-> UNDEFINED, date |-> NullDate] }

\* The users who send them.
CreateUsers == {"c1", "c2", "o1"}

\* Users book with such bodies, and time passes.
NextCreate ==
    \/ \E u \in CreateUsers, body \in CreateBodies :
           Len(appointments) < MaxBookings /\ CreateAppointment(u, body)
    \/ Deliver
    \/ Tick

SpecCreate == Init /\ [][NextCreate]_vars

\* ------------------------------------------- bookings and slot queries

\* Request bodies of the bookings the slot queries meet: at b1 an hour-long
\* service on Monday 09:30 and on Wednesday 10:45, a half-hour service on
\* Monday 10:30, and at b2 a service on Wednesday 10:45.
SlotBodies ==
    { [businessId |-> "b1", serviceId |-> "sv2", staffId |-> UNDEFINED,
       date |-> <<StartTime - 30>>],
      [businessId |-> "b1", serviceId |-> "sv1", staffId |-> "st1",
       date |-> <<StartTime + 30>>],
      [businessId |-> "b1", serviceId |-> "sv2", staffId |-> UNDEFINED,
       date |-> <<2 * MinutesPerDay + 645>>],
      [businessId |-> "b2", serviceId |-> "sv3", staffId |-> UNDEFINED,
       date |-> <<2 * MinutesPerDay + 645>>] }

\* The dates slot queries ask for: the Sunday before the clock starts, the
\* Monday of the clock, and the Tuesday, Wednesday and Thursday after it.
SlotQueryDates == { StartTime + k * MinutesPerDay : k \in -1..3 }

\* req.query of the slot queries: every service at b1 on each date, and
\* b2 on Wednesday.
AllSlotQueries ==
    { [businessId |-> "b1", serviceId |-> sv, date |-> <<d>>] :
        sv \in Services, d \in SlotQueryDates }
    \cup { [businessId |-> "b2", serviceId |-> "sv3",
            date |-> <<StartTime + 2 * MinutesPerDay>>] }

\* A customer books, the owners confirm, cancel, complete, mark no-show and
\* clean up, time passes, and anyone asks for the slots.
NextSlots ==
    \/ \E body \in SlotBodies :
           Len(appointments) < MaxBookings /\ CreateAppointment("c1", body)
    \/ \E u \in {"o1", "o2"}, id \in 1..MaxBookings, status \in {"CONFIRMED", "CANCELLED"} :
           UpdateAppointmentStatus(u, id, status)
    \/ \E id \in 1..MaxBookings : MarkAsCompleted("o1", id)
    \/ \E id \in 1..MaxBookings : MarkAsNoShow("o1", id)
    \/ CleanupExpiredAppointments("o1")
    \/ \E q \in AllSlotQueries : GetAvailableSlots(q)
    \/ Deliver
    \/ Tick

SpecSlots == Init /\ [][NextSlots]_vars

\* ------------------------------------------- the services failing

\* The sets of users for whom creating or emitting a notification fails.
FailingSets == SUBSET {"c1", "o1"}

\* Between two requests the notification store, the socket or the mail
\* transport break or recover.
Fault ==
    /\ response.op = "none"
    /\ \E f \in FailingSets, m \in BOOLEAN :
           /\ <<f, m>> # <<notifyFails, mailFails>>
           /\ notifyFails' = f
           /\ mailFails' = m
    /\ UNCHANGED <<appointments, now, response, inflight>>

\* The users who send requests while the services fail: the customer, the
\* owner of b1, two staff members of b1 and one of b2.
FaultUsers == {"c1", "o1", "s1", "s2", "s3"}

\* The requests of the lifecycle while the services fail and recover.
NextFaults ==
    \/ \E body \in BookingBodies :
           Len(appointments) < MaxAppts /\ CreateAppointment("c1", body)
    \/ \E u \in FaultUsers, id \in AppointmentIds, status \in RequestedStatuses :
           UpdateAppointmentStatus(u, id, status)
    \/ \E u \in FaultUsers, id \in AppointmentIds, otp \in GeneratedOtps :
           InitiateCompletion(u, id, otp)
    \/ \E u \in FaultUsers, id \in AppointmentIds, otp \in SubmittedOtps :
           VerifyCompletion(u, id, otp)
    \/ \E u \in FaultUsers, id \in AppointmentIds : MarkAsCompleted(u, id)
    \/ \E u \in FaultUsers, id \in AppointmentIds : MarkAsNoShow(u, id)
    \/ \E u \in FaultUsers, id \in AppointmentIds : ClaimAppointment(u, id)
    \/ Deliver
    \/ Fault

SpecFaults == Init /\ [][NextFaults]_vars

\* ------------------------------------------------------------------ claims

Rows == 1..Len(appointments)

\* No answer is on its way: the state in which the next request is handled.
Idle == response.op = "none"

\* Who a user is to an appointment, read off the tables: the owner of its
\* business, the staff member whose profile it is assigned to, its customer.
OwnerOf(u, a) == ownerId(a.businessId) = u

AssignedTo(u, a) == \E s \in StaffRows : s.userId = u /\ s.id = a.staffId

BookedBy(u, a) == a.customerId = u

\* The user has a staff profile (and so is a staff member) of business b.
StaffOf(u, b) == \E s \in StaffRows : s.userId = u /\ s.businessId = b

\* The five operations on one appointment that only the owner of its business
\* and its assigned staff member may use (and, for the first, its customer).
GuardedOps ==
    { "updateAppointmentStatus", "initiateCompletion", "verifyCompletion",
      "markAsCompleted", "markAsNoShow" }

\* C1: CANCELLED, COMPLETED and NO_SHOW are terminal: once an appointment has
\* one of these statuses, no later step changes its status.
C1_TerminalIsFinal ==
    [][ \A i \in Rows :
          appointments[i].status \in Terminal
          => appointments'[i].status = appointments[i].status ]_vars

\* C2: an appointment is created only at a start time the slot engine reports
\* as an available slot of that business, service and day.
C2_BookedOnlyIfAvailable ==
    [][ Len(appointments') > Len(appointments)
        => LET a == appointments'[Len(appointments')]
           IN  slotAvailable(a.businessId, a.serviceId, a.date) ]_vars

\* C3: bookings are not checked against each other: whatever the table holds,
\* a customer's booking request that carries business, service and date is
\* accepted and adds a PENDING appointment at the requested time, also when
\* that time is already taken by a PENDING appointment of the same business.
C3_BookingsNotSerialized ==
    Idle =>
    \A u \in {"c1", "c2"}, body \in BookingBodies :
        ~(Falsy(body.businessId) \/ Falsy(body.serviceId) \/ body.date = NullDate)
        => LET r == PostAppointment(u, body)
               n == Len(appointments) + 1
           IN  /\ r.code = 201
               /\ Len(r.appts) = n
               /\ SubSeq(r.appts, 1, n - 1) = appointments
               /\ r.appts[n].status = "PENDING"
               /\ r.appts[n].businessId = body.businessId
               /\ r.appts[n].date = body.date[1]

\* C3 witness: the second of two bookings of the same slot of one business was
\* just accepted; both are PENDING and their intervals overlap.
C3_TwoOverlappingPending ==
    /\ response.op = "createAppointment"
    /\ response.code = 201
    /\ \E i \in Rows, j \in Rows :
        /\ i < j
        /\ j = Len(appointments)
        /\ appointments[i].businessId = appointments[j].businessId
        /\ appointments[i].status = "PENDING"
        /\ appointments[j].status = "PENDING"
        /\ appointments[i].date = appointments[j].date
        /\ appointments[i].date
             < appointments[j].date + durationOf(appointments[j].serviceId)
        /\ appointments[i].date + durationOf(appointments[i].serviceId)
             > appointments[j].date

\* C4: the customer who booked an appointment may cancel it by a status update.
C4_CustomerMayCancel ==
    Idle =>
    \A id \in Rows :
        LET r == PutStatus(appointments[id].customerId, id, "CANCELLED")
        IN  r.code = 200 /\ r.appts[id].status = "CANCELLED"

C6_StrangersRefused ==
    Idle =>
    \A id \in Rows, u \in Users :
        LET a == appointments[id]
            refused(r) == r.code = 403 /\ r.appts = appointments /\ r.notified = {}
        IN  ~OwnerOf(u, a) /\ ~AssignedTo(u, a)
            => /\ \A otp \in GeneratedOtps : refused(PostInitiateCompletion(u, id, otp))
               /\ \A otp \in SubmittedOtps : refused(PostVerifyCompletion(u, id, otp))
               /\ refused(PostComplete(u, id))
               /\ refused(PostNoShow(u, id))
               /\ ~BookedBy(u, a)
                  => \A status \in ValidTargets : refused(PutStatus(u, id, status))

\* C6 witness: a staff member of the same business, who is not the one the
\* appointment is assigned to, was just refused.
C6_UnassignedStaffRefused ==
    /\ response.op \in GuardedOps
    /\ response.code = 403
    /\ response.id \in Rows
    /\ role(response.user) = "STAFF"
    /\ staffProfile(response.user).businessId = appointments[response.id].businessId
    /\ appointments[response.id].staffId # NULL
    /\ ~AssignedTo(response.user, appointments[response.id])

\* C7: a status update to CONFIRMED, COMPLETED or NO_SHOW asked by the
\* appointment's customer is refused with Forbidden and changes nothing,
\* whatever the appointment's status: by the route, and by the handler's own
\* check were the request to reach it.
C7_CustomerOnlyCancels ==
    Idle =>
    \A id \in Rows, status \in ValidTargets \ {"CANCELLED"} :
        LET c == appointments[id].customerId
            r == PutStatus(c, id, status)
            h == updateAppointmentStatus(c, id, status)
        IN  /\ r.code = 403 /\ r.appts = appointments
            /\ h.code = 403 /\ h.appts = appointments

\* C7 witness: the customer of an appointment asked for another status than
\* CANCELLED and was refused.
C7_CustomerRefused ==
    /\ response.op = "updateAppointmentStatus"
    /\ response.code = 403
    /\ response.id \in Rows
    /\ response.user = appointments[response.id].customerId
    /\ response.arg \in ValidTargets \ {"CANCELLED"}

\* C8: a status update to CANCELLED asked by a STAFF user is refused with
\* Forbidden and changes nothing, assigned to the appointment or not.
C8_StaffNeverCancels ==
    Idle =>
    \A id \in Rows, u \in Users :
        role(u) = "STAFF"
        => LET r == PutStatus(u, id, "CANCELLED")
           IN  r.code = 403 /\ r.appts = appointments

\* C8 witness: the assigned staff member asked for CANCELLED and was refused.
C8_AssignedStaffRefused ==
    /\ response.op = "updateAppointmentStatus"
    /\ response.arg = "CANCELLED"
    /\ response.code = 403
    /\ response.id \in Rows
    /\ AssignedTo(response.user, appointments[response.id])

\* C9: no COMPLETED appointment holds a completion code or an expiry,
\* whichever operation completed it.
C9_CompletedHoldsNoOtp ==
    \A i \in Rows :
        appointments[i].status = "COMPLETED"
        => /\ appointments[i].completionOtp = NULL
           /\ appointments[i].otpExpires = NullDate

\* C10: verify-completion with a code that is not the stored completionOtp
\* changes nothing and sends no notification; asked by the owner or the
\* assigned staff member it fails with a Validation error.
C10_WrongOtpRejected ==
    Idle =>
    \A id \in Rows, u \in Users, otp \in SubmittedOtps :
        otp # appointments[id].completionOtp
        => LET r == PostVerifyCompletion(u, id, otp)
           IN  /\ r.appts = appointments
               /\ r.notified = {}
               /\ r.code # 200
               /\ OwnerOf(u, appointments[id]) \/ AssignedTo(u, appointments[id])
                  => r.code = 400

\* C10 witness: a code was outstanding, the owner or assigned staff member
\* submitted another and was answered with the Validation error.
C10_WrongOtpSubmitted ==
    /\ response.op = "verifyCompletion"
    /\ response.code = 400
    /\ response.id \in Rows
    /\ appointments[response.id].completionOtp # NULL
    /\ response.arg # appointments[response.id].completionOtp
    /\ response.notified = {}

\* C11: verify-completion by the owner or the assigned staff member with the
\* code that initiate-completion stored sets the status to COMPLETED and
\* clears completionOtp and otpExpires, whatever the clock shows: also after
\* otpExpires has passed.
C11_MatchingOtpCompletes ==
    Idle =>
    \A id \in Rows, u \in Users, otp \in SubmittedOtps :
        LET a == appointments[id]
        IN  /\ OwnerOf(u, a) \/ AssignedTo(u, a)
            /\ a.completionOtp # NULL
            /\ otp = a.completionOtp
            => LET r == PostVerifyCompletion(u, id, otp)
               IN  /\ r.code = 200
                   /\ r.appts = [appointments EXCEPT ![id].status = "COMPLETED",
                                                     ![id].completionOtp = NULL,
                                                     ![id].otpExpires = NullDate]

\* C11 witness: a code whose expiry had passed was verified, and the
\* appointment is COMPLETED with the code and the expiry cleared.
C11_VerifiedAfterExpiry ==
    /\ response.op = "verifyCompletion"
    /\ response.code = 200
    /\ response.was # << >>
    /\ response.was[1].completionOtp = response.arg
    /\ response.was[1].otpExpires # NullDate
    /\ response.was[1].otpExpires[1] < now
    /\ appointments[response.id].status = "COMPLETED"
    /\ appointments[response.id].completionOtp = NULL
    /\ appointments[response.id].otpExpires = NullDate

\* C12: a claim of an appointment whose staffId is set never changes the
\* appointment and sends no notification, whoever asks; asked by a staff
\* member of the appointment's business, the one it is assigned to included,
\* it fails with a Validation error.
C12_AssignedIsNotClaimable ==
    Idle =>
    \A id \in Rows, u \in Users :
        appointments[id].staffId # NULL
        => LET r == PostClaim(u, id)
           IN  /\ r.appts = appointments
               /\ r.notified = {}
               /\ r.code # 200
               /\ StaffOf(u, appointments[id].businessId) => r.code = 400

\* C12 witness: the staff member an appointment is assigned to claimed it
\* again and was answered with the Validation error; the row is as it was.
C12_ClaimedTwice ==
    /\ response.op = "claimAppointment"
    /\ response.code = 400
    /\ response.id \in Rows
    /\ AssignedTo(response.user, appointments[response.id])
    /\ response.was = <<appointments[response.id]>>

\* C13: a claim by a staff member whose profile belongs to another business
\* than the appointment's fails with Forbidden and changes nothing: an
\* unassigned appointment stays unassigned, and an assigned one is answered
\* Forbidden too, the business being checked first.
C13_OtherBusinessRefused ==
    Idle =>
    \A id \in Rows, u \in Users :
        /\ \E s \in StaffRows : s.userId = u
        /\ ~StaffOf(u, appointments[id].businessId)
        => LET r == PostClaim(u, id)
           IN  r.code = 403 /\ r.appts = appointments /\ r.notified = {}

\* C13 witness: a staff member of another business claimed an unassigned
\* appointment, was refused, and staffId is still null.
C13_OtherBusinessClaimRefused ==
    /\ response.op = "claimAppointment"
    /\ response.code = 403
    /\ response.id \in Rows
    /\ \E s \in StaffRows : s.userId = response.user
    /\ ~StaffOf(response.user, appointments[response.id].businessId)
    /\ response.was # << >>
    /\ response.was[1].staffId = NULL
    /\ appointments[response.id].staffId = NULL

\* C14: a claim of an unassigned appointment by a staff member of its
\* business succeeds, sets staffId to the claimer's profile id and attempts
\* two notifications, to the business owner and to the customer: both and
\* the success also when notifications fail.
C14_ClaimNotifiesBoth ==
    Idle =>
    \A id \in Rows, s \in StaffRows :
        LET a == appointments[id]
        IN  s.businessId = a.businessId /\ a.staffId = NULL
            => LET r == PostClaim(s.userId, id)
               IN  /\ r.code = 200
                   /\ r.appts = [appointments EXCEPT ![id].staffId = s.id]
                   /\ r.notified = { <<ownerId(a.businessId), "STAFF_CLAIMED">>,
                                     <<a.customerId, "APPOINTMENT_ASSIGNED">> }

\* C14 witness: a claim has succeeded while the notification of the owner,
\* the first of the two, failed; the customer's was attempted after it.
C14_ClaimedWhileOwnerUnreachable ==
    /\ response.op = "claimAppointment"
    /\ response.code = 200
    /\ response.id \in Rows
    /\ AssignedTo(response.user, appointments[response.id])
    /\ ownerId(appointments[response.id].businessId) \in notifyFails
    /\ <<ownerId(appointments[response.id].businessId), "STAFF_CLAIMED">>
           \in response.notified \ response.delivered
    /\ <<appointments[response.id].customerId, "APPOINTMENT_ASSIGNED">>
           \in response.notified

\* C15: cleanup asked by an owner cancels exactly the appointments that are
\* PENDING, dated strictly before now and of a business of that owner; it
\* answers with their number, leaves every other appointment and every other
\* field as it was, and sends no notification.
C15_CleanupCancelsExpiredPending ==
    Idle =>
    \A u \in Users :
        role(u) = "OWNER"
        => LET r == PostCleanupExpired(u)
               due == { i \in Rows : /\ appointments[i].status = "PENDING"
                                     /\ appointments[i].date < now
                                     /\ OwnerOf(u, appointments[i]) }
           IN  /\ r.code = 200
               /\ r.count = Cardinality(due)
               /\ r.notified = {}
               /\ Len(r.appts) = Len(appointments)
               /\ \A i \in Rows :
                      r.appts[i] = IF i \in due
                                   THEN [appointments[i] EXCEPT !.status = "CANCELLED"]
                                   ELSE appointments[i]

\* C15 witness: a cleanup has cancelled one appointment of the owner and
\* kept another PENDING appointment of the same owner that is not yet past.
C15_PastCancelledFutureKept ==
    /\ response.op = "cleanupExpiredAppointments"
    /\ response.code = 200
    /\ response.count = 1
    /\ \E i, j \in Rows :
           /\ i # j
           /\ OwnerOf(response.user, appointments[i])
           /\ appointments[i].status = "CANCELLED"
           /\ appointments[i].date < now
           /\ OwnerOf(response.user, appointments[j])
           /\ appointments[j].status = "PENDING"
           /\ appointments[j].date >= now

\* C16: every operation is all-or-nothing: a request that is answered with
\* an error leaves the appointment store exactly as it was.
C16_ErrorsChangeNothing ==
    [][ /\ response.op = "none"
        /\ response'.op # "none"
        /\ response'.code >= 400
        => appointments' = appointments ]_vars

\* C17: a notification that cannot be created or emitted never fails the
\* operation: booking, status update, complete, OTP verify and claim still
\* answer with success, and what they wrote stays written.
C17_NotificationFailureSwallowed ==
    /\ response.op \in { "createAppointment", "updateAppointmentStatus",
                         "markAsCompleted", "verifyCompletion", "claimAppointment" }
    /\ response.notified # response.delivered
    => CASE response.op = "createAppointment" ->
              /\ response.code = 201
              /\ Len(appointments) > 0
              /\ appointments[Len(appointments)].customerId = response.user
              /\ appointments[Len(appointments)].businessId = response.arg.businessId
              /\ appointments[Len(appointments)].status = "PENDING"
         [] response.op = "updateAppointmentStatus" ->
              /\ response.code = 200
              /\ appointments[response.id].status = response.arg
         [] response.op = "claimAppointment" ->
              /\ response.code = 200
              /\ AssignedTo(response.user, appointments[response.id])
         [] OTHER ->
              /\ response.code = 200
              /\ appointments[response.id].status = "COMPLETED"

\* C17 witness: the owner's status update was answered with success although
\* the notification of the customer failed.
C17_ConfirmedWhileCustomerUnreachable ==
    /\ response.op = "updateAppointmentStatus"
    /\ response.code = 200
    /\ response.id \in Rows
    /\ OwnerOf(response.user, appointments[response.id])
    /\ appointments[response.id].customerId \in notifyFails
    /\ \E n \in response.notified \ response.delivered :
           n[1] = appointments[response.id].customerId
    /\ appointments[response.id].status = response.arg

\* C18: a failure to send the email is not fatal to initiate-completion:
\* asked by the owner or the assigned staff member it answers with success,
\* the code and its expiry stored, whether the mail goes out or not.
C18_MailFailureNotFatal ==
    Idle =>
    \A id \in Rows, u \in Users, otp \in GeneratedOtps :
        OwnerOf(u, appointments[id]) \/ AssignedTo(u, appointments[id])
        => LET r == PostInitiateCompletion(u, id, otp)
           IN  /\ r.code = 200
               /\ r.appts[id].completionOtp = otp
               /\ r.appts[id].otpExpires = <<now + OtpLifetime>>

\* C19: every successful transition to CONFIRMED, COMPLETED or NO_SHOW, by
\* status update, complete, no-show or OTP verify, attempts a notification
\* to the customer, and one to the business owner when the actor is the
\* assigned staff member.
C19_TransitionNotifiesCustomer ==
    /\ response.op \in { "updateAppointmentStatus", "markAsCompleted",
                         "markAsNoShow", "verifyCompletion" }
    /\ response.code = 200
    /\ appointments[response.id].status \in {"CONFIRMED", "COMPLETED", "NO_SHOW"}
    /\ response.op = "updateAppointmentStatus"
           => response.arg = appointments[response.id].status
    => LET a == appointments[response.id]
       IN  /\ \E n \in response.notified : n[1] = a.customerId
           /\ AssignedTo(response.user, a)
                  => \E n \in response.notified : n[1] = ownerId(a.businessId)

\* C20: a successful cancellation notifies the parties who did not act: the
\* owner's cancellation is followed by one notification, to the customer;
\* the customer's, where the handler is given it, by one to the business
\* owner and one to the user of the assigned staff member, if there is one.
C20_CancelNotifiesOthers ==
    Idle =>
    \A id \in Rows :
        LET a == appointments[id]
            byOwner == PutStatus(ownerId(a.businessId), id, "CANCELLED")
            byCustomer == updateAppointmentStatus(a.customerId, id, "CANCELLED")
        IN  /\ byOwner.code = 200
            /\ byOwner.notified = {<<a.customerId, "APPOINTMENT_CANCELLED">>}
            /\ byCustomer.code = 200
            /\ byCustomer.notified =
                   {<<ownerId(a.businessId), "APPOINTMENT_CANCELLED">>}
                   \cup { <<s.userId, "APPOINTMENT_CANCELLED">> :
                             s \in {t \in StaffRows : t.id = a.staffId} }

\* C20 witness: the owner has cancelled an appointment that has an assigned
\* staff member; the customer alone was notified.
C20_OwnerCancelled ==
    /\ response.op = "updateAppointmentStatus"
    /\ response.arg = "CANCELLED"
    /\ response.code = 200
    /\ response.id \in Rows
    /\ OwnerOf(response.user, appointments[response.id])
    /\ appointments[response.id].staffId # NULL
    /\ appointments[response.id].status = "CANCELLED"
    /\ response.notified =
           {<<appointments[response.id].customerId, "APPOINTMENT_CANCELLED">>}

\* C21: the slot query answers, in chronological order and each once, with
\* exactly the times open + 30 k that are before closing, not before now, and
\* whose end (start + duration of the service, 30 when unset) is not after
\* closing; with no slot at all when the weekday has no BusinessHour row,
\* when isOpen is false, or when the whole day lies before now.
C21_SlotsAreTheFittingTimes ==
    Idle =>
    \A b \in Businesses, sv \in Services, d \in SlotQueryDates :
        LET r == GetSlots([businessId |-> b, serviceId |-> sv, date |-> <<d>>])
            midnight == d - (d % 1440)
            weekday == ((d \div 1440) + 1) % 7
            rows == {h \in BusinessHours : h.businessId = b /\ h.dayOfWeek = weekday}
            h == CHOOSE x \in rows : TRUE
            open == midnight + 60 * h.startTime[1] + h.startTime[2]
            close == midnight + 60 * h.endTime[1] + h.endTime[2]
            length == IF serviceRow(sv).duration = 0 THEN 30 ELSE serviceRow(sv).duration
            expected ==
                IF rows = {} \/ midnight + 1439 < now THEN {}
                ELSE IF ~h.isOpen THEN {}
                ELSE { t \in open..(close - 1) :
                         /\ (t - open) % 30 = 0
                         /\ t >= now
                         /\ t + length <= close }
        IN  /\ r.code = 200
            /\ {r.slots[k].time : k \in 1..Len(r.slots)} = expected
            /\ \A k \in 1..(Len(r.slots) - 1) : r.slots[k].time < r.slots[k + 1].time

\* C21 witness: a query was answered with slots of which the first is later
\* than opening, the earlier ones being past, and the last ends at closing,
\* the one after it not fitting.
C21_PastSkippedAndLastFits ==
    /\ response.op = "getAvailableSlots"
    /\ response.code = 200
    /\ Len(response.slots) > 0
    /\ response.arg.businessId = "b1"
    /\ response.arg.serviceId = "sv2"
    /\ response.slots[1].time = now
    /\ response.slots[1].time > setHours(response.arg.date[1], <<9, 0>>)
    /\ response.slots[Len(response.slots)].time + 60
           = setHours(response.arg.date[1], <<11, 0>>)

\* The length in minutes the slot engine gives a service: its duration, 30
\* when unset.
LengthOf(sv) == IF serviceRow(sv).duration = 0 THEN 30 ELSE serviceRow(sv).duration

\* Appointment i is of business b, dated on the day of d, and its interval
\* overlaps [s, e) under the rule s1 < e2 and e1 > s2.
Overlaps(i, b, d, s, e) ==
    /\ appointments[i].businessId = b
    /\ appointments[i].date - (appointments[i].date % 1440) = d - (d % 1440)
    /\ s < appointments[i].date + LengthOf(appointments[i].serviceId)
    /\ e > appointments[i].date

\* C22: a returned slot is flagged unavailable exactly when its interval
\* overlaps the interval of a PENDING or CONFIRMED appointment of the same
\* business on that date; a slot only touching an appointment is available.
C22_UnavailableIffOverlap ==
    Idle =>
    \A b \in Businesses, sv \in Services, d \in SlotQueryDates :
        LET r == GetSlots([businessId |-> b, serviceId |-> sv, date |-> <<d>>])
        IN  \A k \in 1..Len(r.slots) :
                r.slots[k].available = FALSE
                <=> \E i \in Rows :
                       /\ appointments[i].status \in {"PENDING", "CONFIRMED"}
                       /\ Overlaps(i, b, d, r.slots[k].time, r.slots[k].time + LengthOf(sv))

\* C22 witness: a query was answered with an available slot ending where a
\* PENDING appointment starts, an unavailable slot inside the appointment,
\* and an available slot starting where the appointment ends.
C22_TouchingSlotsAvailable ==
    /\ response.op = "getAvailableSlots"
    /\ \E i \in Rows :
          /\ appointments[i].status = "PENDING"
          /\ appointments[i].businessId = response.arg.businessId
          /\ \E j, k, l \in 1..Len(response.slots) :
                /\ response.slots[j].time + LengthOf(response.arg.serviceId)
                      = appointments[i].date
                /\ response.slots[j].available
                /\ response.slots[k].time = appointments[i].date
                /\ ~response.slots[k].available
                /\ response.slots[l].time
                      = appointments[i].date + LengthOf(appointments[i].serviceId)
                /\ response.slots[l].available

\* C23: an appointment that is CANCELLED, COMPLETED or NO_SHOW never blocks
\* a slot: a returned slot that no PENDING or CONFIRMED appointment overlaps
\* is flagged available, whatever cancelled, completed or no-show
\* appointments overlap it.
C23_TerminalNeverBlocks ==
    Idle =>
    \A b \in Businesses, sv \in Services, d \in SlotQueryDates :
        LET r == GetSlots([businessId |-> b, serviceId |-> sv, date |-> <<d>>])
        IN  \A k \in 1..Len(r.slots) :
                (\A i \in Rows :
                    Overlaps(i, b, d, r.slots[k].time, r.slots[k].time + LengthOf(sv))
                    => appointments[i].status \in Terminal)
                => r.slots[k].available

\* C23 witness: a query was answered with an available slot that a
\* cancelled, a completed or a no-show appointment overlaps; for the
\* cancelled one the query date is past its date, as after a cleanup.
C23_ReleasedSlotAvailable ==
    /\ response.op = "getAvailableSlots"
    /\ \E i \in Rows, k \in 1..Len(response.slots) :
          /\ appointments[i].status \in Terminal
          /\ appointments[i].status = "CANCELLED" => appointments[i].date < now
          /\ Overlaps(i, response.arg.businessId, response.arg.date[1],
                      response.slots[k].time,
                      response.slots[k].time + LengthOf(response.arg.serviceId))
          /\ response.slots[k].available

\* C30: as long as a booked appointment is PENDING or CONFIRMED, every slot
\* query for its business on its date, for any service and whoever is
\* assigned, flags every returned slot overlapping the appointment as
\* unavailable, the slot starting at the booked time included.
C30_BookingBlocksItsSlots ==
    Idle =>
    \A i \in Rows, sv \in Services, d \in SlotQueryDates \cup {appointments[n].date : n \in Rows} :
        ( /\ appointments[i].status \in {"PENDING", "CONFIRMED"}
          /\ d - (d % 1440) = appointments[i].date - (appointments[i].date % 1440) )
        => LET r == GetSlots([businessId |-> appointments[i].businessId,
                              serviceId |-> sv, date |-> <<d>>])
           IN  \A k \in 1..Len(r.slots) :
                   ( /\ r.slots[k].time < appointments[i].date
                                            + LengthOf(appointments[i].serviceId)
                     /\ r.slots[k].time + LengthOf(sv) > appointments[i].date )
                   => ~r.slots[k].available

\* C30 witness: a query for another service than the booked one was answered
\* with the slot at the booked time and an earlier slot both unavailable,
\* the appointment being CONFIRMED and assigned to a staff member.
C30_AssignedBookingSeen ==
    /\ response.op = "getAvailableSlots"
    /\ \E i \in Rows, j, k \in 1..Len(response.slots) :
          /\ appointments[i].status = "CONFIRMED"
          /\ appointments[i].staffId # NULL
          /\ appointments[i].businessId = response.arg.businessId
          /\ appointments[i].serviceId # response.arg.serviceId
          /\ response.slots[j].time < appointments[i].date
          /\ ~response.slots[j].available
          /\ response.slots[k].time = appointments[i].date
          /\ ~response.slots[k].available

\* C24: every appointment is created PENDING, with the acting user as the
\* customer, the requested staff or null as the staff, and no completion
\* code, whatever the body carries; a booking without businessId, serviceId
\* or date is answered 400 and creates nothing.
C24_CreatedPendingForActor ==
    Idle =>
    \A u \in CreateUsers, body \in CreateBodies :
        LET r == createAppointment(u, body)
            route == PostAppointment(u, body)
            missing == \/ body.businessId \in {UNDEFINED, NULL, ""}
                       \/ body.serviceId \in {UNDEFINED, NULL, ""}
                       \/ body.date = NullDate
        IN  /\ missing => r.code = 400 /\ r.appts = appointments
            /\ missing /\ role(u) = "CUSTOMER"
                  => route.code = 400 /\ route.appts = appointments
            /\ \A x \in {r, route} :
                  x.appts # appointments =>
                    /\ ~missing
                    /\ Len(x.appts) = Len(appointments) + 1
                    /\ \A i \in Rows : x.appts[i] = appointments[i]
                    /\ x.appts[Len(x.appts)].status = "PENDING"
                    /\ x.appts[Len(x.appts)].customerId = u
                    /\ x.appts[Len(x.appts)].staffId
                          = (IF body.staffId \in {UNDEFINED, NULL, ""}
                             THEN NULL ELSE body.staffId)
                    /\ x.appts[Len(x.appts)].completionOtp = NULL
                    /\ x.appts[Len(x.appts)].otpExpires = NullDate

\* C24 witness: a booking whose body named a status, another customer and a
\* completion code was accepted, and the new appointment is PENDING, the
\* sender's, and without code.
C24_BodyFieldsIgnored ==
    /\ response.op = "createAppointment"
    /\ response.code = 201
    /\ "status" \in DOMAIN response.arg
    /\ response.arg.status = "CONFIRMED"
    /\ response.arg.customerId # response.user
    /\ appointments[Len(appointments)].status = "PENDING"
    /\ appointments[Len(appointments)].customerId = response.user
    /\ appointments[Len(appointments)].completionOtp = NULL

\* C25: no operation changes the date, customerId, businessId or serviceId
\* of an existing appointment and none removes an appointment: in every
\* step the rows that were there are still there with these four fields as
\* they were, and a slot query leaves the whole table as it was.
C25_IdentityFieldsKept ==
    [][ /\ Len(appointments') >= Len(appointments)
        /\ \A i \in Rows :
              /\ appointments'[i].date = appointments[i].date
              /\ appointments'[i].customerId = appointments[i].customerId
              /\ appointments'[i].businessId = appointments[i].businessId
              /\ appointments'[i].serviceId = appointments[i].serviceId
        /\ response'.op = "getAvailableSlots" => appointments' = appointments ]_vars

\* C25 witness: an appointment was booked, claimed by a staff member, given
\* a completion code and completed by verification, and its date, customer,
\* business and service are those of the row before the last write.
C25_RowWrittenManyTimes ==
    /\ response.op = "verifyCompletion"
    /\ response.code = 200
    /\ \E i \in Rows :
          /\ response.id = i
          /\ response.was # << >>
          /\ response.was[1].date = appointments[i].date
          /\ response.was[1].customerId = appointments[i].customerId
          /\ response.was[1].businessId = appointments[i].businessId
          /\ response.was[1].serviceId = appointments[i].serviceId
          /\ response.was[1].status # "COMPLETED"
          /\ response.was[1].completionOtp # NULL
          /\ appointments[i].status = "COMPLETED"
          /\ appointments[i].staffId # NULL

\* req.body.status values that are none of the four targets: the initial
\* status, an unknown word, and no value.
InvalidStatuses == {"PENDING", "DONE", UNDEFINED, NULL}

\* C26: the status update validates the requested status first: a status
\* that is none of CONFIRMED, CANCELLED, COMPLETED, NO_SHOW (PENDING or no
\* value included) is answered 400 and changes nothing, for an appointment
\* that does not exist and for an actor who is nothing to the appointment
\* as for any other; so answers the handler to every user, and the route to
\* every user it admits.
C26_StatusValidatedFirst ==
    Idle =>
    \A u \in Users, id \in 1..(Len(appointments) + 1), status \in InvalidStatuses :
        LET h == updateAppointmentStatus(u, id, status)
            r == PutStatus(u, id, status)
        IN  /\ h.code = 400 /\ h.appts = appointments /\ h.notified = {}
            /\ role(u) \in {"OWNER", "STAFF"}
                  => r.code = 400 /\ r.appts = appointments /\ r.notified = {}

\* C26 witness: a user who is neither owner, staff nor customer of an
\* existing appointment asked for status PENDING and was answered 400, not
\* 403.
C26_StrangerGetsValidation ==
    /\ response.op = "updateAppointmentStatus"
    /\ response.code = 400
    /\ response.arg = "PENDING"
    /\ response.id \in Rows
    /\ ~OwnerOf(response.user, appointments[response.id])
    /\ ~AssignedTo(response.user, appointments[response.id])
    /\ ~BookedBy(response.user, appointments[response.id])

\* C27: under every interleaving of claims of staff members of one business
\* on an unassigned appointment at most one is answered with success, and a
\* staffId once set is not overwritten: a claim answered 200 wrote to a row
\* that had no staff at its write, and no step changes a staffId that is set.
C27_ClaimedOnce ==
    [][ /\ \A i \in Rows :
              appointments[i].staffId # NULL
              => appointments'[i].staffId = appointments[i].staffId
        /\ ( /\ response.op = "none"
             /\ response'.op = "claimAppointment"
             /\ response'.code = 200 )
           => appointments[response'.id].staffId = NULL ]_vars

\* C29: under every interleaving of cleanup with status updates of the same
\* past-dated PENDING appointment, the batch write of cleanup changes only
\* rows that are PENDING when it is made, to CANCELLED and in nothing else,
\* and the count it returns is the number of the rows it changed; a row
\* already CONFIRMED is not cancelled by it.
C29_CleanupWritesPendingOnly ==
    [][ ( /\ response.op = "none"
          /\ response'.op = "cleanupExpiredAppointments"
          /\ response'.code = 200 )
        => /\ \A i \in Rows :
                 appointments'[i] # appointments[i]
                 => /\ appointments[i].status = "PENDING"
                    /\ appointments'[i] = [appointments[i] EXCEPT !.status = "CANCELLED"]
           /\ response'.count
                 = Cardinality({i \in Rows : appointments'[i] # appointments[i]}) ]_vars

\* C29 witness: cleanup was answered with count 1 between the read and the
\* write of a confirmation of the same appointment: the confirmation in
\* flight read it PENDING, and it is CANCELLED.
C29_CleanupBetweenReadAndWrite ==
    /\ response.op = "cleanupExpiredAppointments"
    /\ response.count = 1
    /\ \E req \in inflight :
          /\ req.op = "updateAppointmentStatus"
          /\ req.arg = "CONFIRMED"
          /\ req.read.status = "PENDING"
          /\ appointments[req.id].status = "CANCELLED"

\* C28: on an appointment whose completionOtp is null, never initiated or
\* already verified, every verify request of the owner or the assigned staff
\* member is answered 400 and leaves the appointment as it was, whatever otp
\* the request carries: a string, no field, or null.
C28_NoCodeNoCompletion ==
    Idle =>
    \A id \in Rows, u \in Users, otp \in SubmittedOtps :
        ( /\ appointments[id].completionOtp = NULL
          /\ OwnerOf(u, appointments[id]) \/ AssignedTo(u, appointments[id]) )
        => LET r == PostVerifyCompletion(u, id, otp)
           IN  r.code = 400 /\ r.appts = appointments

====
